---- MODULE Spec2Model ----
(***************************************************************************)
(* Model of packages/frontend/workspace-impl/src/cloud/sync.ts:            *)
(* AffineSyncStorage (the live sync client over a socket.io socket) and    *)
(* the channel events it reacts to.                                        *)
(*                                                                         *)
(* The socket is shared by every client instance.  Its listener registry   *)
(* is modelled by three sets (one per event name); handler identities are  *)
(* the client id (handleConnect, one per instance) and the subscription id *)
(* (handleUpdate / handleDisconnect, one pair of closures per subscribe    *)
(* call).  Ids are handed out in increasing order, so id order is the      *)
(* order in which `on` registered the handlers.                            *)
(***************************************************************************)
EXTENDS Integers, Sequences, FiniteSets, TLC

(***************************************************************************)
(* Bounds of the model.                                                    *)
(***************************************************************************)
MaxClients == 2
MaxSubs == 2
MaxSteps == 5
MaxCalls == 2
\* the time one step of the clock takes, in ms
TickMs == 30000

Clients == 1..MaxClients
Subs == 1..MaxSubs
Calls == 1..MaxCalls

SEND_TIMEOUT == 30000

Workspaces == {"wsA", "wsB"}
Guids == {"doc1", "doc2"}
Reasons == {"transport close", "ping timeout"}

(***************************************************************************)
(* Optional values (undefined / a value).                                  *)
(***************************************************************************)
None == [some |-> FALSE, v |-> <<>>]
Some(x) == [some |-> TRUE, v |-> x]

(***************************************************************************)
(* Codec (utils/base64): binary <-> base64 text.  A byte sequence is a     *)
(* sequence over 0..255; a text is a sequence of base64 alphabet indices   *)
(* 0..63, with Pad for '='.                                                *)
(***************************************************************************)
Pad == 64

EncodeGroup(g) ==
  LET n == g[1] * 65536
           + (IF Len(g) > 1 THEN g[2] * 256 ELSE 0)
           + (IF Len(g) > 2 THEN g[3] ELSE 0)
      s1 == (n \div 262144) % 64
      s2 == (n \div 4096) % 64
      s3 == (n \div 64) % 64
      s4 == n % 64
  IN  IF Len(g) = 1 THEN <<s1, s2, Pad, Pad>>
      ELSE IF Len(g) = 2 THEN <<s1, s2, s3, Pad>>
      ELSE <<s1, s2, s3, s4>>

RECURSIVE uint8ArrayToBase64(_)
uint8ArrayToBase64(array) ==
  IF Len(array) = 0 THEN <<>>
  ELSE IF Len(array) <= 3 THEN EncodeGroup(array)
  ELSE EncodeGroup(SubSeq(array, 1, 3))
         \o uint8ArrayToBase64(SubSeq(array, 4, Len(array)))

DecodeGroup(q) ==
  LET v(i) == IF q[i] = Pad THEN 0 ELSE q[i]
      n == v(1) * 262144 + v(2) * 4096 + v(3) * 64 + v(4)
      b1 == (n \div 65536) % 256
      b2 == (n \div 256) % 256
      b3 == n % 256
  IN  IF q[3] = Pad THEN <<b1>>
      ELSE IF q[4] = Pad THEN <<b1, b2>>
      ELSE <<b1, b2, b3>>

RECURSIVE base64ToUint8Array(_)
base64ToUint8Array(base64) ==
  IF Len(base64) < 4 THEN <<>>
  ELSE DecodeGroup(SubSeq(base64, 1, 4))
         \o base64ToUint8Array(SubSeq(base64, 5, Len(base64)))

(***************************************************************************)
(* JavaScript truthiness of the values the code tests.                     *)
(*   - an optional Uint8Array: any array object is truthy, also an empty   *)
(*     one; undefined is falsy;                                            *)
(*   - an optional string: undefined and the empty string are falsy.       *)
(***************************************************************************)
TruthyBytes(o) == o.some
TruthyText(o) == o.some /\ Len(o.v) > 0

(***************************************************************************)
(* Inputs.                                                                 *)
(***************************************************************************)
TextA == uint8ArrayToBase64(<<1>>)
TextB == uint8ArrayToBase64(<<255, 0>>)
TextEmpty == uint8ArrayToBase64(<<>>)

\* the updates lists a 'server-updates' broadcast carries
UpdateLists == {<<>>, <<TextEmpty>>, <<TextA, TextB>>}

Messages ==
  [workspaceId : Workspaces, guid : Guids, updates : UpdateLists]

\* the documents pull and push are called for
DocIds == {"doc1"}
\* pull's localState argument: undefined, an empty vector, a vector
StateArgs == {None, Some(<<>>), Some(<<1>>)}
\* push's update argument
UpdateArgs == {<<>>, <<255, 0>>}

\* replies to 'doc-load-v2': {error: {code, message}} | {data: {missing, state?}}
NoError == [code |-> "", message |-> ""]
NoData == [missing |-> <<>>, state |-> None]
PullReplies ==
  {[hasError |-> TRUE, error |-> e, data |-> NoData] :
     e \in {[code |-> "DOC_NOT_FOUND", message |-> "Doc not found"],
            [code |-> "INTERNAL", message |-> "boom"]}}
  \cup
  {[hasError |-> FALSE, error |-> NoError, data |-> d] :
     d \in {[missing |-> TextA, state |-> None],
            [missing |-> TextA, state |-> Some(TextB)],
            [missing |-> TextEmpty, state |-> Some(TextEmpty)]}}

\* replies to 'client-update-v2': {error?: any, data: any}; the error marker
\* is a string here, the empty string being a falsy one
PushReplies == {[error |-> e] : e \in {None, Some(""), Some("X")}}

VARIABLES
  connected,     \* socket.connected
  nSteps,        \* number of operations and channel events so far (bounds the run)
  client,        \* per client instance: lifecycle and bound workspaceId
  connectL,      \* listeners of 'connect': clients whose handleConnect is on
  updatesL,      \* listeners of 'server-updates': subscriptions' handleUpdate
  disconnectL,   \* listeners of 'disconnect': subscriptions' handleDisconnect
  emitted,       \* per client: the fire-and-forget emits it made, in order
  sub,           \* per subscribe call: owner and whether cancel was invoked
  onUpdate,      \* per subscribe call: the calls of its cb, in order
  onDisconnect,  \* per subscribe call: the calls of its disconnect callback
  calls,         \* per pull/push call: its arguments, position and outcome
  received       \* per subscribe call: the broadcasts for its collection that
                 \* arrived while it was active, in arrival order (history)

vars == <<connected, nSteps, client, connectL, updatesL, disconnectL,
          emitted, sub, onUpdate, onDisconnect, calls, received>>

NoClient == [st |-> "none", workspaceId |-> "", connectedAtCtor |-> FALSE,
             connects |-> 0]
NoSub == [st |-> "none", owner |-> 0, cancelled |-> FALSE]

NoOutcome == [kind |-> "pending", message |-> "", data |-> <<>>, state |-> None]
NoCall == [op |-> "none", pc |-> "idle", c |-> 0, docId |-> "", arg |-> None,
           sent |-> <<>>, elapsed |-> 0, reply |-> None, outcome |-> NoOutcome]

Init ==
  /\ connected \in BOOLEAN
  /\ nSteps = 0
  /\ client = [c \in Clients |-> NoClient]
  /\ connectL = {}
  /\ updatesL = {}
  /\ disconnectL = {}
  /\ emitted = [c \in Clients |-> <<>>]
  /\ sub = [s \in Subs |-> NoSub]
  /\ onUpdate = [s \in Subs |-> <<>>]
  /\ onDisconnect = [s \in Subs |-> <<>>]
  /\ calls = [k \in Calls |-> NoCall]
  /\ received = [s \in Subs |-> <<>>]

Emit(ev, payload) == [event |-> ev, payload |-> payload]

\* handleConnect announcing twice per connect event
handleConnect_Twice(em, c) ==
  [em EXCEPT ![c] = @ \o <<Emit("client-handshake-sync", client[c].workspaceId),
                           Emit("client-handshake-sync", client[c].workspaceId)>>]

(***************************************************************************)
(* handleConnect (lines 35-37): the emits of client c after it ran.        *)
(***************************************************************************)
handleConnect(em, c) ==
  [em EXCEPT ![c] = Append(@, Emit("client-handshake-sync", client[c].workspaceId))]

\* the constructor announcing itself whatever socket.connected says
Construct_AlwaysHandshake(c, workspaceId) ==
  /\ nSteps < MaxSteps
  /\ nSteps' = nSteps + 1
  /\ client[c].st = "none"
  /\ \A d \in Clients : d < c => client[d].st # "none"
  /\ client' = [client EXCEPT ![c] =
                  [st |-> "live", workspaceId |-> workspaceId,
                   connectedAtCtor |-> connected, connects |-> 0]]
  /\ connectL' = connectL \cup {c}
  /\ emitted' = [emitted EXCEPT ![c] =
                   Append(@, Emit("client-handshake-sync", workspaceId))]
  /\ UNCHANGED <<connected, updatesL, disconnectL, sub, onUpdate,
                 onDisconnect, calls,
                 received>>

\* the constructor not listening for the connect event
Construct_NoListener(c, workspaceId) ==
  /\ nSteps < MaxSteps
  /\ nSteps' = nSteps + 1
  /\ client[c].st = "none"
  /\ \A d \in Clients : d < c => client[d].st # "none"
  /\ client' = [client EXCEPT ![c] =
                  [st |-> "live", workspaceId |-> workspaceId,
                   connectedAtCtor |-> connected, connects |-> 0]]
  /\ connectL' = connectL
  /\ emitted' = [emitted EXCEPT ![c] =
                   IF connected
                     THEN Append(@, Emit("client-handshake-sync", workspaceId))
                     ELSE @]
  /\ UNCHANGED <<connected, updatesL, disconnectL, sub, onUpdate,
                 onDisconnect, calls, received>>

(***************************************************************************)
(* constructor (lines 18-33).  Instances are created in id order.  Over a   *)
(* disconnected channel it calls socket.connect(); the 'connect' event     *)
(* comes later, when the channel is established (Connect).                 *)
(***************************************************************************)
Construct(c, workspaceId) ==
  /\ nSteps < MaxSteps
  /\ nSteps' = nSteps + 1
  /\ client[c].st = "none"
  /\ \A d \in Clients : d < c => client[d].st # "none"
  /\ client' = [client EXCEPT ![c] =
                  [st |-> "live", workspaceId |-> workspaceId,
                   connectedAtCtor |-> connected, connects |-> 0]]
  /\ connectL' = connectL \cup {c}
  /\ emitted' = [emitted EXCEPT ![c] =
                   IF connected
                     THEN Append(@, Emit("client-handshake-sync", workspaceId))
                     ELSE @]
  /\ UNCHANGED <<connected, updatesL, disconnectL, sub, onUpdate,
                 onDisconnect, calls,
                 received>>

(***************************************************************************)
(* The channel's 'connect' event: every registered handleConnect runs, in  *)
(* registration order.                                                     *)
(***************************************************************************)
RECURSIVE RunConnect(_, _)
RunConnect(em, hs) ==
  IF hs = {} THEN em
  ELSE LET c == CHOOSE x \in hs : \A y \in hs : x <= y
       IN  RunConnect(handleConnect(em, c), hs \ {c})

Connect ==
  /\ ~connected
  /\ nSteps < MaxSteps
  /\ connected' = TRUE
  /\ nSteps' = nSteps + 1
  /\ emitted' = RunConnect(emitted, connectL)
  /\ client' = [c \in Clients |->
                  IF client[c].st = "live"
                    THEN [client[c] EXCEPT !.connects = @ + 1]
                    ELSE client[c]]
  /\ UNCHANGED <<connectL, updatesL, disconnectL, sub, onUpdate, onDisconnect, calls,
                 received>>

(***************************************************************************)
(* cleanup (lines 147-150), invoked once by the cleanup service.           *)
(***************************************************************************)
\* cleanup without the departure message
cleanup_NoLeave(c) ==
  /\ emitted' = emitted
  /\ connectL' = connectL \ {c}

\* cleanup leaving the connect handler registered
cleanup_NoOff(c) ==
  /\ emitted' = [emitted EXCEPT ![c] =
                   Append(@, Emit("client-leave-sync", client[c].workspaceId))]
  /\ connectL' = connectL

cleanup(c) ==
  /\ emitted' = [emitted EXCEPT ![c] =
                   Append(@, Emit("client-leave-sync", client[c].workspaceId))]
  /\ connectL' = connectL \ {c}

Cleanup(c) ==
  /\ nSteps < MaxSteps
  /\ nSteps' = nSteps + 1
  /\ client[c].st = "live"
  /\ cleanup(c)
  /\ client' = [client EXCEPT ![c].st = "torn"]
  /\ UNCHANGED <<connected, updatesL, disconnectL, sub, onUpdate,
                 onDisconnect, calls,
                 received>>

\* subscribe not listening for the disconnect event
Subscribe_NoDisconnectHandler(c, s) ==
  /\ nSteps < MaxSteps
  /\ nSteps' = nSteps + 1
  /\ client[c].st # "none"
  /\ sub[s].st = "none"
  /\ \A t \in Subs : t < s => sub[t].st # "none"
  /\ sub' = [sub EXCEPT ![s] = [st |-> "subscribed", owner |-> c,
                                cancelled |-> FALSE]]
  /\ updatesL' = updatesL \cup {s}
  /\ disconnectL' = disconnectL
  /\ UNCHANGED <<connected, client, connectL, emitted, onUpdate,
                 onDisconnect, calls, received>>

(***************************************************************************)
(* subscribe (lines 118-145): installs the two closures of this call.      *)
(***************************************************************************)
Subscribe(c, s) ==
  /\ nSteps < MaxSteps
  /\ nSteps' = nSteps + 1
  /\ client[c].st # "none"
  /\ sub[s].st = "none"
  /\ \A t \in Subs : t < s => sub[t].st # "none"
  /\ sub' = [sub EXCEPT ![s] = [st |-> "subscribed", owner |-> c,
                                cancelled |-> FALSE]]
  /\ updatesL' = updatesL \cup {s}
  /\ disconnectL' = disconnectL \cup {s}
  /\ UNCHANGED <<connected, client, connectL, emitted, onUpdate,
                 onDisconnect, calls,
                 received>>

(***************************************************************************)
(* The closure subscribe returns (lines 141-144); it may be invoked any    *)
(* number of times.                                                        *)
(***************************************************************************)
\* the handle forgetting the disconnect handler
cancel_KeepsDisconnect(s) ==
  /\ updatesL' = updatesL \ {s}
  /\ disconnectL' = disconnectL

\* the handle calling off without its handler, which removes every listener
\* of the two events
cancel_RemovesAll(s) ==
  /\ updatesL' = {}
  /\ disconnectL' = {}

cancel(s) ==
  /\ updatesL' = updatesL \ {s}
  /\ disconnectL' = disconnectL \ {s}

Cancel(s) ==
  /\ nSteps < MaxSteps
  /\ nSteps' = nSteps + 1
  /\ sub[s].st = "subscribed"
  /\ cancel(s)
  /\ sub' = [sub EXCEPT ![s].cancelled = TRUE]
  /\ UNCHANGED <<connected, client, connectL, emitted, onUpdate,
                 onDisconnect, calls,
                 received>>

\* handleUpdate without the workspaceId test
handleUpdate_NoFilter(s, message) ==
  onUpdate[s] \o
    [i \in 1..Len(message.updates) |->
       [docId |-> message.guid,
        data |-> base64ToUint8Array(message.updates[i])]]

\* handleUpdate testing against the id of the first client of the channel
\* instead of the id of the client that subscribed
handleUpdate_FirstClient(s, message) ==
  IF message.workspaceId = client[1].workspaceId
    THEN onUpdate[s] \o
           [i \in 1..Len(message.updates) |->
              [docId |-> message.guid,
               data |-> base64ToUint8Array(message.updates[i])]]
    ELSE onUpdate[s]

\* handleUpdate skipping an update the callback already got
handleUpdate_Dedup(s, message) ==
  IF message.workspaceId = client[sub[s].owner].workspaceId
    THEN onUpdate[s] \o
           SelectSeq([i \in 1..Len(message.updates) |->
                        [docId |-> message.guid,
                         data |-> base64ToUint8Array(message.updates[i])]],
                     LAMBDA e : \A j \in 1..Len(onUpdate[s]) :
                                  onUpdate[s][j] # e)
    ELSE onUpdate[s]

(***************************************************************************)
(* handleUpdate (lines 122-132): the cb calls of subscription s after its  *)
(* handler got `message`.                                                  *)
(***************************************************************************)
handleUpdate(s, message) ==
  IF message.workspaceId = client[sub[s].owner].workspaceId
    THEN onUpdate[s] \o
           [i \in 1..Len(message.updates) |->
              [docId |-> message.guid,
               data |-> base64ToUint8Array(message.updates[i])]]
    ELSE onUpdate[s]

(***************************************************************************)
(* The channel delivers a 'server-updates' broadcast to every registered   *)
(* handleUpdate.  A broadcast only arrives over a connected channel.       *)
(***************************************************************************)
Broadcast(message) ==
  /\ connected
  /\ nSteps < MaxSteps
  /\ nSteps' = nSteps + 1
  /\ onUpdate' = [s \in Subs |->
                    IF s \in updatesL THEN handleUpdate(s, message)
                    ELSE onUpdate[s]]
  /\ received' = [s \in Subs |->
                    IF /\ sub[s].st = "subscribed" /\ ~sub[s].cancelled
                       /\ onDisconnect[s] = <<>>
                       /\ message.workspaceId = client[sub[s].owner].workspaceId
                      THEN Append(received[s], message)
                      ELSE received[s]]
  /\ UNCHANGED <<connected, client, connectL, updatesL, disconnectL, emitted,
                 sub, onDisconnect, calls>>

\* handleDisconnect calling back before it detaches the update handler
handleDisconnect_CallbackFirst(st, s, reason) ==
  [updatesL |-> st.updatesL \ {s},
   onDisconnect |->
     [st.onDisconnect EXCEPT ![s] =
        Append(@, [reason |-> reason, updateHandlerOn |-> s \in st.updatesL])]]

(***************************************************************************)
(* handleDisconnect (lines 133-136): first off('server-updates'), then the *)
(* disconnect callback.  The callback's record keeps the reason and        *)
(* whether this subscription's update handler was still registered when    *)
(* the callback ran.                                                       *)
(***************************************************************************)
handleDisconnect(st, s, reason) ==
  LET off == st.updatesL \ {s}
  IN  [updatesL |-> off,
       onDisconnect |->
         [st.onDisconnect EXCEPT ![s] =
            Append(@, [reason |-> reason, updateHandlerOn |-> s \in off])]]

RECURSIVE RunDisconnect(_, _, _)
RunDisconnect(st, hs, reason) ==
  IF hs = {} THEN st
  ELSE LET s == CHOOSE x \in hs : \A y \in hs : x <= y
       IN  RunDisconnect(handleDisconnect(st, s, reason), hs \ {s}, reason)

Disconnect(reason) ==
  /\ connected
  /\ nSteps < MaxSteps
  /\ connected' = FALSE
  /\ nSteps' = nSteps + 1
  /\ LET st == RunDisconnect([updatesL |-> updatesL,
                              onDisconnect |-> onDisconnect],
                             disconnectL, reason)
     IN  /\ updatesL' = st.updatesL
         /\ onDisconnect' = st.onDisconnect
  /\ UNCHANGED <<client, connectL, disconnectL, emitted, sub, onUpdate, calls,
                 received>>

(***************************************************************************)
(* Requests sent with socket.timeout(SEND_TIMEOUT).emitWithAck.            *)
(***************************************************************************)
Request(ev, workspaceId, guid, stateVector, updates) ==
  [event |-> ev, workspaceId |-> workspaceId, guid |-> guid,
   stateVector |-> stateVector, updates |-> updates]

\* pull, lines 51-59: the 'doc-load-v2' request of call k
pullRequest(k, stateVector) ==
  Request("doc-load-v2", client[calls[k].c].workspaceId, calls[k].docId,
          stateVector, <<>>)

\* push, lines 94-104: the 'client-update-v2' request of call k
pushRequest(k, payload) ==
  Request("client-update-v2", client[calls[k].c].workspaceId, calls[k].docId,
          None, <<payload>>)

StartCall(k, op, c, docId, arg) ==
  [NoCall EXCEPT !.op = op, !.pc = "encode", !.c = c, !.docId = docId,
                 !.arg = arg]

FreeCall(k) ==
  /\ calls[k].op = "none"
  /\ \A j \in Calls : j < k => calls[j].op # "none"

(***************************************************************************)
(* pull (lines 39-83), up to its first await.  `state ? await              *)
(* uint8ArrayToBase64(state) : undefined`: with a falsy state nothing is   *)
(* awaited and the request is emitted within the call; otherwise the call  *)
(* waits for the encoding.                                                 *)
(***************************************************************************)
PullCall(k, c, docId, state) ==
  /\ nSteps < MaxSteps
  /\ nSteps' = nSteps + 1
  /\ FreeCall(k)
  /\ client[c].st # "none"
  /\ LET started == StartCall(k, "pull", c, docId, state)
     IN  calls' = [calls EXCEPT ![k] =
                     IF TruthyBytes(state)
                       THEN started
                       ELSE [started EXCEPT
                               !.pc = "wait",
                               !.sent = <<Request("doc-load-v2",
                                                  client[c].workspaceId,
                                                  docId, None, <<>>)>>]]
  /\ UNCHANGED <<connected, client, connectL, updatesL, disconnectL, emitted,
                 sub, onUpdate, onDisconnect,
                 received>>

(***************************************************************************)
(* push (lines 85-92), up to `await uint8ArrayToBase64(update)`.           *)
(***************************************************************************)
PushCall(k, c, docId, update) ==
  /\ nSteps < MaxSteps
  /\ nSteps' = nSteps + 1
  /\ FreeCall(k)
  /\ client[c].st # "none"
  /\ calls' = [calls EXCEPT ![k] = StartCall(k, "push", c, docId, Some(update))]
  /\ UNCHANGED <<connected, client, connectL, updatesL, disconnectL, emitted,
                 sub, onUpdate, onDisconnect,
                 received>>

(***************************************************************************)
(* The encoding resolved: the call emits its request (lines 53-59 and      *)
(* 98-104) and waits for the acknowledgement.                              *)
(***************************************************************************)
EncodeDone(k) ==
  /\ calls[k].pc = "encode"
  /\ LET text == uint8ArrayToBase64(calls[k].arg.v)
         req == IF calls[k].op = "pull" THEN pullRequest(k, Some(text))
                ELSE pushRequest(k, text)
     IN  calls' = [calls EXCEPT ![k].pc = "wait",
                                ![k].sent = Append(@, req)]
  /\ UNCHANGED <<connected, nSteps, client, connectL, updatesL, disconnectL,
                 emitted, sub, onUpdate, onDisconnect,
                 received>>

Outcome(kind, message, data, state) ==
  [kind |-> kind, message |-> message, data |-> data, state |-> state]

(***************************************************************************)
(* pull after the acknowledgement (lines 68-82).                           *)
(***************************************************************************)
pullResult(response) ==
  IF response.hasError
    THEN IF response.error.code = "DOC_NOT_FOUND"
           THEN Outcome("null", "", <<>>, None)
           ELSE Outcome("error", response.error.message, <<>>, None)
    ELSE Outcome("value", "",
                 base64ToUint8Array(response.data.missing),
                 IF TruthyText(response.data.state)
                   THEN Some(base64ToUint8Array(response.data.state.v))
                   ELSE None)

(***************************************************************************)
(* push after the acknowledgement (lines 107-115): `if (response.error)`.  *)
(***************************************************************************)
TruthyString(o) == o.some /\ o.v # ""

\* push not looking at the reply
pushResult_IgnoresError(response) ==
  Outcome("void", "", <<>>, None)

pushResult(response) ==
  IF TruthyString(response.error)
    THEN Outcome("error", response.error.v, <<>>, None)
    ELSE Outcome("void", "", <<>>, None)

(***************************************************************************)
(* The remote peer acknowledges the request of call k with `reply`; an     *)
(* acknowledgement only arrives over a connected channel.                  *)
(***************************************************************************)
Ack(k, reply) ==
  /\ nSteps < MaxSteps
  /\ nSteps' = nSteps + 1
  /\ connected
  /\ calls[k].pc = "wait"
  /\ reply \in (IF calls[k].op = "pull" THEN PullReplies ELSE PushReplies)
  /\ calls' = [calls EXCEPT
                 ![k].pc = "done",
                 ![k].reply = Some(reply),
                 ![k].outcome = IF calls[k].op = "pull" THEN pullResult(reply)
                                ELSE pushResult(reply)]
  /\ UNCHANGED <<connected, client, connectL, updatesL, disconnectL, emitted,
                 sub, onUpdate, onDisconnect,
                 received>>

(***************************************************************************)
(* Time passes: TickMs more for every request waiting for its              *)
(* acknowledgement, but not past a timer that is due.                      *)
(***************************************************************************)
Min(a, b) == IF a <= b THEN a ELSE b

Tick ==
  /\ \E k \in Calls : calls[k].pc = "wait"
  /\ \A k \in Calls : calls[k].pc = "wait" => calls[k].elapsed < SEND_TIMEOUT
  /\ calls' = [k \in Calls |->
                 IF calls[k].pc = "wait"
                   THEN [calls[k] EXCEPT
                           !.elapsed = Min(@ + TickMs, SEND_TIMEOUT)]
                   ELSE calls[k]]
  /\ UNCHANGED <<connected, nSteps, client, connectL, updatesL, disconnectL,
                 emitted, sub, onUpdate, onDisconnect,
                 received>>

\* emitWithAck without socket.timeout: no timer ever fires
Timeout_Never(k) ==
  /\ FALSE
  /\ UNCHANGED vars

\* a timer that, when it fires, sends the request again and waits anew
Timeout_Retry(k) ==
  /\ calls[k].pc = "wait"
  /\ calls[k].elapsed >= SEND_TIMEOUT
  /\ Len(calls[k].sent) < 2
  /\ calls' = [calls EXCEPT ![k].sent = @ \o @, ![k].elapsed = 0]
  /\ UNCHANGED <<connected, nSteps, client, connectL, updatesL, disconnectL,
                 emitted, sub, onUpdate, onDisconnect,
                 received>>

(***************************************************************************)
(* socket.timeout(SEND_TIMEOUT): no acknowledgement came within the bound, *)
(* emitWithAck rejects and the call fails with it.                         *)
(***************************************************************************)
Timeout(k) ==
  /\ calls[k].pc = "wait"
  /\ calls[k].elapsed >= SEND_TIMEOUT
  /\ calls' = [calls EXCEPT
                 ![k].pc = "done",
                 ![k].outcome = Outcome("timeout", "operation has timed out",
                                        <<>>, None)]
  /\ UNCHANGED <<connected, nSteps, client, connectL, updatesL, disconnectL,
                 emitted, sub, onUpdate, onDisconnect,
                 received>>

(***************************************************************************)
(* The client's lifecycle and its subscriptions.                           *)
(***************************************************************************)
Next ==
  \/ \E c \in Clients, w \in Workspaces : Construct(c, w)
  \/ Connect
  \/ \E r \in Reasons : Disconnect(r)
  \/ \E c \in Clients : Cleanup(c)
  \/ \E c \in Clients, s \in Subs : Subscribe(c, s)
  \/ \E s \in Subs : Cancel(s)
  \/ \E m \in Messages : Broadcast(m)

Spec == Init /\ [][Next]_vars

(***************************************************************************)
(* The requests of one client instance: pull and push calls over the       *)
(* channel, which connects and disconnects under them.  The requests read  *)
(* the listener registry nowhere and the subscriptions read no call.       *)
(***************************************************************************)
NextRpc ==
  \/ \E w \in Workspaces : Construct(1, w)
  \/ Connect
  \/ \E r \in Reasons : Disconnect(r)
  \/ \E k \in Calls, d \in DocIds, a \in StateArgs : PullCall(k, 1, d, a)
  \/ \E k \in Calls, d \in DocIds, u \in UpdateArgs : PushCall(k, 1, d, u)
  \/ \E k \in Calls : EncodeDone(k)
  \/ \E k \in Calls : \E r \in PullReplies \cup PushReplies : Ack(k, r)
  \/ Tick
  \/ \E k \in Calls : Timeout(k)

SpecRpc == Init /\ [][NextRpc]_vars

(***************************************************************************)
(* Fairness of the requests: the encoding a call awaits resolves, the      *)
(* clock advances, and a timer that is due fires.                          *)
(***************************************************************************)
\* Whether a call settles does not depend on what it carries: the runs with
\* fairness take one argument that is encoded and one that is not, and one
\* failing and one succeeding reply per request.
LiveStateArgs == {None, Some(<<1>>)}
LiveUpdateArgs == {<<255, 0>>}
LiveReplies ==
  {r \in PullReplies : r.error.code = "DOC_NOT_FOUND" \/ r.data.state = Some(TextB)}
  \cup {r \in PushReplies : r.error # Some("")}

NextRpcLive ==
  \/ \E w \in Workspaces : Construct(1, w)
  \/ Connect
  \/ \E r \in Reasons : Disconnect(r)
  \/ \E k \in Calls, d \in DocIds, a \in LiveStateArgs : PullCall(k, 1, d, a)
  \/ \E k \in Calls, d \in DocIds, u \in LiveUpdateArgs : PushCall(k, 1, d, u)
  \/ \E k \in Calls : EncodeDone(k)
  \/ \E k \in Calls : \E r \in LiveReplies : Ack(k, r)
  \/ Tick
  \/ \E k \in Calls : Timeout(k)

LiveSpecRpc ==
  /\ Init /\ [][NextRpcLive]_vars
  /\ WF_vars(Tick)
  /\ \A k \in Calls : WF_vars(EncodeDone(k)) /\ WF_vars(Timeout(k))

(***************************************************************************)
(* AffineStaticSyncStorage (lines 153-180): a read-only client that loads  *)
(* a document with one GET and has no channel.  Its calls are kept in      *)
(* `calls` like those of the live client; w is the workspaceId the         *)
(* instance was constructed with.                                          *)
(***************************************************************************)
\* what pull reads of the response of the GET: response.ok and the body
StaticBodies == {<<>>, <<1>>, <<255, 0>>}
Responses == [ok : BOOLEAN, body : StaticBodies]

\* fetchWithTraceReport(`/api/workspaces/${workspaceId}/docs/${docId}`, ...)
Fetch(w, docId) ==
  [event |-> "fetch", path |-> <<"/api/workspaces/", w, "/docs/", docId>>,
   priority |-> "high"]

\* the static pull, lines 156-165: it awaits the response of its GET
StaticPull(k, w, docId) ==
  /\ FreeCall(k)
  /\ calls' = [calls EXCEPT ![k] =
                 [NoCall EXCEPT !.op = "staticPull", !.pc = "fetch",
                                !.docId = docId,
                                !.sent = <<Fetch(w, docId)>>]]
  /\ UNCHANGED <<connected, nSteps, client, connectL, updatesL, disconnectL,
                 emitted, sub, onUpdate, onDisconnect,
                 received>>

\* the static pull handing out the body of every response
staticPullResult_IgnoresOk(response) ==
  Outcome("value", "", response.body, None)

\* lines 166-172
staticPullResult(response) ==
  IF response.ok
    THEN Outcome("value", "", response.body, None)
    ELSE Outcome("null", "", <<>>, None)

\* the response of the GET of call k arrived
StaticRespond(k, response) ==
  /\ calls[k].pc = "fetch"
  /\ calls' = [calls EXCEPT ![k].pc = "done",
                            ![k].reply = Some(response),
                            ![k].outcome = staticPullResult(response)]
  /\ UNCHANGED <<connected, nSteps, client, connectL, updatesL, disconnectL,
                 emitted, sub, onUpdate, onDisconnect,
                 received>>

NotImplemented == Outcome("error", "Method not implemented.", <<>>, None)

\* the static push, lines 174-176: it throws whatever it is called with
StaticPush(k, docId, update) ==
  /\ FreeCall(k)
  /\ calls' = [calls EXCEPT ![k] =
                 [NoCall EXCEPT !.op = "staticPush", !.pc = "done",
                                !.docId = docId, !.arg = Some(update),
                                !.outcome = NotImplemented]]
  /\ UNCHANGED <<connected, nSteps, client, connectL, updatesL, disconnectL,
                 emitted, sub, onUpdate, onDisconnect,
                 received>>

\* the static subscribe, lines 177-179: it throws and installs nothing
StaticSubscribe(k) ==
  /\ FreeCall(k)
  /\ calls' = [calls EXCEPT ![k] =
                 [NoCall EXCEPT !.op = "staticSubscribe", !.pc = "done",
                                !.outcome = NotImplemented]]
  /\ UNCHANGED <<connected, nSteps, client, connectL, updatesL, disconnectL,
                 emitted, sub, onUpdate, onDisconnect,
                 received>>

NextStatic ==
  \/ \E k \in Calls, w \in Workspaces, d \in Guids : StaticPull(k, w, d)
  \/ \E k \in Calls, r \in Responses : StaticRespond(k, r)
  \/ \E k \in Calls, d \in Guids, u \in UpdateArgs : StaticPush(k, d, u)
  \/ \E k \in Calls : StaticSubscribe(k)

SpecStatic == Init /\ [][NextStatic]_vars

(***************************************************************************)
(* Reading the logs.                                                       *)
(***************************************************************************)
Handshake(w) == Emit("client-handshake-sync", w)
Leave(w) == Emit("client-leave-sync", w)

CountEvent(log, ev) == Cardinality({i \in 1..Len(log) : log[i].event = ev})

\* a subscription is active: subscribed and its cancel handle not invoked
Subscribed(s) == sub[s].st = "subscribed" /\ ~sub[s].cancelled
\* ... and no disconnect has reached it
Delivering(s) == Subscribed(s) /\ onDisconnect[s] = <<>>

BoundTo(s) == client[sub[s].owner].workspaceId

IsConstruct(c) == client[c].st = "none" /\ client'[c].st = "live"
IsCleanup(c) == client[c].st = "live" /\ client'[c].st = "torn"
IsConnectEvent == ~connected /\ connected'

(***************************************************************************)
(* C1.  Constructing a client while the channel is connected emits exactly *)
(* one handshake with the bound collection id during construction;         *)
(* constructing it while disconnected emits no handshake until a connect   *)
(* event fires, and the first connect event (the client not torn down      *)
(* meanwhile) causes exactly one handshake from this client.               *)
(***************************************************************************)
C1_HandshakeOnConnect ==
  [][\A c \in Clients :
       /\ IsConstruct(c) =>
            emitted'[c] = IF connected
                            THEN <<Handshake(client'[c].workspaceId)>>
                            ELSE <<>>
       /\ (client[c].st = "live" /\ ~client[c].connectedAtCtor
             /\ client[c].connects = 0) =>
            /\ emitted[c] = <<>>
            /\ (IsConnectEvent /\ client'[c].st = "live") =>
                 emitted'[c] = <<Handshake(client[c].workspaceId)>>
            /\ ~IsConnectEvent =>
                 CountEvent(emitted'[c], "client-handshake-sync") = 0]_vars

C1_Witness ==
  \E c \in Clients :
    /\ client[c].st = "live"
    /\ ~client[c].connectedAtCtor
    /\ client[c].connects = 1
    /\ emitted[c] = <<Handshake(client[c].workspaceId)>>

(***************************************************************************)
(* C2.  For a client that has not been torn down, after N connect events   *)
(* since construction (N disconnect/connect cycles) the client has emitted *)
(* N+1 handshakes if the channel was connected at construction and N if    *)
(* not, each carrying the bound collection id, and nothing else.           *)
(***************************************************************************)
C2_HandshakePerConnect ==
  \A c \in Clients :
    client[c].st = "live" =>
      /\ CountEvent(emitted[c], "client-handshake-sync") =
           client[c].connects + (IF client[c].connectedAtCtor THEN 1 ELSE 0)
      /\ \A i \in 1..Len(emitted[c]) :
           emitted[c][i] = Handshake(client[c].workspaceId)

C2_Witness ==
  \E c \in Clients :
    /\ client[c].st = "live"
    /\ client[c].connectedAtCtor
    /\ client[c].connects = 2
    /\ CountEvent(emitted[c], "client-handshake-sync") = 3

(***************************************************************************)
(* C3.  cleanup emits exactly one 'client-leave-sync' with the bound       *)
(* collection id and detaches the connect handler; from then on, whatever  *)
(* connect and disconnect events occur, the client emits no further        *)
(* handshake; also when cleanup runs while the channel is disconnected.    *)
(***************************************************************************)
C3_Teardown ==
  [][\A c \in Clients :
       /\ IsCleanup(c) =>
            /\ emitted'[c] = Append(emitted[c], Leave(client[c].workspaceId))
            /\ c \notin connectL'
       /\ client[c].st = "torn" =>
            /\ client'[c].st = "torn"
            /\ CountEvent(emitted'[c], "client-handshake-sync") =
                 CountEvent(emitted[c], "client-handshake-sync")
            /\ CountEvent(emitted'[c], "client-leave-sync") = 1]_vars

\* torn down while disconnected, before any connect event; the channel has
\* connected since and the client emitted no handshake
C3_Witness ==
  \E c \in Clients :
    /\ client[c].st = "torn"
    /\ ~client[c].connectedAtCtor
    /\ connected
    /\ emitted[c] = <<Leave(client[c].workspaceId)>>

(***************************************************************************)
(* C4.  While a subscription is active, a 'server-updates' broadcast whose *)
(* workspaceId differs from the bound collection id invokes onUpdate zero  *)
(* times; a matching one invokes it once per entry of its updates list, in *)
(* array order, each call with the broadcast's guid and the bytes the      *)
(* entry encodes.                                                          *)
(***************************************************************************)
C4_SubscribeFiltering ==
  [][\A m \in Messages :
       Broadcast(m) =>
         \A s \in Subs :
           Delivering(s) =>
             IF m.workspaceId = BoundTo(s)
               THEN /\ Len(onUpdate'[s]) = Len(onUpdate[s]) + Len(m.updates)
                    /\ SubSeq(onUpdate'[s], 1, Len(onUpdate[s])) = onUpdate[s]
                    /\ \A i \in 1..Len(m.updates) :
                         LET call == onUpdate'[s][Len(onUpdate[s]) + i]
                         IN  /\ call.docId = m.guid
                             /\ uint8ArrayToBase64(call.data) = m.updates[i]
               ELSE onUpdate'[s] = onUpdate[s]]_vars

\* a matching broadcast of two entries was delivered in order, while a
\* subscription bound to another collection got nothing
C4_Witness ==
  \E s, u \in Subs :
    /\ Delivering(s)
    /\ onUpdate[s] = <<[docId |-> "doc2", data |-> <<1>>],
                       [docId |-> "doc2", data |-> <<255, 0>>]>>
    /\ Delivering(u)
    /\ u < s
    /\ BoundTo(u) # BoundTo(s)
    /\ onUpdate[u] = <<>>

(***************************************************************************)
(* C5.  After the cancellation handle of a subscription has been invoked,  *)
(* no later broadcast invokes its onUpdate and no later disconnect invokes *)
(* its onDisconnect.                                                       *)
(***************************************************************************)
C5_CancelStopsDelivery ==
  [][\A s \in Subs :
       sub[s].cancelled =>
         /\ onUpdate'[s] = onUpdate[s]
         /\ onDisconnect'[s] = onDisconnect[s]]_vars

\* the subscription got an update over the connected channel, was cancelled,
\* and the channel disconnected after the cancel
C5_Witness ==
  \E s \in Subs :
    /\ sub[s].cancelled
    /\ onUpdate[s] # <<>>
    /\ onDisconnect[s] = <<>>
    /\ ~connected

(***************************************************************************)
(* C6.  When the channel disconnects while a subscription is active        *)
(* (subscribed, not cancelled), its onDisconnect is invoked exactly once   *)
(* for that event, with the event's reason, the update handler being       *)
(* detached when it runs; from then on, also after the channel reconnects  *)
(* and the client re-announces, no broadcast invokes that subscription's   *)
(* onUpdate.                                                               *)
(***************************************************************************)
C6_DisconnectDuringSubscription ==
  [][/\ \A r \in Reasons :
          Disconnect(r) =>
            \A s \in Subs :
              Subscribed(s) =>
                onDisconnect'[s] =
                  Append(onDisconnect[s],
                         [reason |-> r, updateHandlerOn |-> FALSE])
     /\ \A s \in Subs :
          onDisconnect[s] # <<>> => onUpdate'[s] = onUpdate[s]]_vars

\* the subscription saw one disconnect, the channel is connected again and
\* the client announced itself again
C6_Witness ==
  \E s \in Subs :
    /\ Subscribed(s)
    /\ Len(onDisconnect[s]) = 1
    /\ onDisconnect[s][1].reason = "ping timeout"
    /\ connected
    /\ client[sub[s].owner].connects >= 1
    /\ CountEvent(emitted[sub[s].owner], "client-handshake-sync") >= 2

(***************************************************************************)
(* Reading the calls.                                                      *)
(***************************************************************************)
Replied(k, op) ==
  calls[k].op = op /\ calls[k].pc = "done" /\ calls[k].reply.some

\* what a reply to 'doc-load-v2' is to make pull return or throw
PullOutcomeOf(reply) ==
  IF reply.hasError
    THEN IF reply.error.code = "DOC_NOT_FOUND"
           THEN Outcome("null", "", <<>>, None)
           ELSE Outcome("error", reply.error.message, <<>>, None)
    ELSE Outcome("value", "",
                 base64ToUint8Array(reply.data.missing),
                 IF reply.data.state.some
                   THEN Some(base64ToUint8Array(reply.data.state.v))
                   ELSE None)

(***************************************************************************)
(* C7.  The outcome of a pull call is determined by the reply to its own   *)
(* request: an error with code 'DOC_NOT_FOUND' makes it return null;       *)
(* another error makes it fail with the remote's message; {data: {missing, *)
(* state?}} makes it return {data: decode(missing), state: decode(state)}, *)
(* state being undefined when the reply has no state.                      *)
(***************************************************************************)
C7_PullOutcome ==
  \A k \in Calls :
    Replied(k, "pull") => calls[k].outcome = PullOutcomeOf(calls[k].reply.v)

(***************************************************************************)
(* C8.  A push call that got a reply fails if and only if the reply        *)
(* carries an error marker (a truthy `error`), and then the failure        *)
(* carries that marker; otherwise push returns with no value.  Each push   *)
(* sends one 'client-update-v2' request whose updates array has exactly    *)
(* one element, the encoded update, an empty update like any other.        *)
(***************************************************************************)
HasErrorMarker(reply) == reply.error.some /\ reply.error.v # ""

C8_Push ==
  \A k \in Calls :
    /\ Replied(k, "push") =>
         IF HasErrorMarker(calls[k].reply.v)
           THEN /\ calls[k].outcome.kind = "error"
                /\ calls[k].outcome.message = calls[k].reply.v.error.v
           ELSE calls[k].outcome.kind = "void"
    /\ (calls[k].op = "push" /\ calls[k].pc \in {"wait", "done"}) =>
         /\ Len(calls[k].sent) = 1
         /\ calls[k].sent[1].event = "client-update-v2"
         /\ calls[k].sent[1].workspaceId = client[calls[k].c].workspaceId
         /\ calls[k].sent[1].guid = calls[k].docId
         /\ Len(calls[k].sent[1].updates) = 1
         /\ base64ToUint8Array(calls[k].sent[1].updates[1]) = calls[k].arg.v

\* an empty update was forwarded and accepted, another push was refused
C8_Witness ==
  \E k, j \in Calls :
    /\ Replied(k, "push")
    /\ calls[k].arg.v = <<>>
    /\ calls[k].sent[1].updates = <<TextEmpty>>
    /\ calls[k].outcome.kind = "void"
    /\ Replied(j, "push")
    /\ calls[j].outcome = Outcome("error", "X", <<>>, None)

(***************************************************************************)
(* C9.  Every pull or push call eventually settles: again and again no    *)
(* call is pending, so none stays pending forever.  A call that settles    *)
(* without an acknowledgement (also one made while the channel is          *)
(* disconnected) has emitted its one request and fails with the timeout,   *)
(* SEND_TIMEOUT = 30000 ms after the request.                              *)
(***************************************************************************)
AllSettled == \A k \in Calls : calls[k].op # "none" => calls[k].pc = "done"

C9_CallsSettle ==
  /\ [](\A k \in Calls :
          (calls[k].pc = "done" /\ ~calls[k].reply.some) =>
            /\ calls[k].outcome.kind = "timeout"
            /\ Len(calls[k].sent) = 1
            /\ calls[k].elapsed = SEND_TIMEOUT
            /\ SEND_TIMEOUT = 30000)
  /\ []<>AllSettled

\* a call made over a channel that never connected has timed out
C9_Witness ==
  \E k \in Calls :
    /\ calls[k].outcome.kind = "timeout"
    /\ ~client[calls[k].c].connectedAtCtor
    /\ client[calls[k].c].connects = 0
    /\ ~connected

(***************************************************************************)
(* C10, as claimed.  After cleanup no handler installed by the client (its *)
(* connect handler, the 'server-updates' and 'disconnect' handlers of its  *)
(* subscriptions) is registered on the channel.                            *)
(***************************************************************************)
C10_AllListenersDetached ==
  \A c \in Clients :
    client[c].st = "torn" =>
      /\ c \notin connectL
      /\ \A s \in Subs :
           (sub[s].st = "subscribed" /\ sub[s].owner = c) =>
             s \notin updatesL /\ s \notin disconnectL

(***************************************************************************)
(* C10, amended.  cleanup detaches the connect handler of the client and   *)
(* no other listener: the 'server-updates' and 'disconnect' listeners are  *)
(* after cleanup what they were before it, and a torn down client has no   *)
(* connect handler registered.                                             *)
(***************************************************************************)
C10_OnlyConnectDetached ==
  /\ [](\A c \in Clients : client[c].st = "torn" => c \notin connectL)
  /\ [][\A c \in Clients :
          IsCleanup(c) =>
            /\ connectL' = connectL \ {c}
            /\ updatesL' = updatesL
            /\ disconnectL' = disconnectL]_vars

\* a client constructed over a disconnected channel and torn down before the
\* channel connected: its subscription still has both handlers registered
\* and got an update, which only the connected channel delivers
C10_Witness ==
  \E s \in Subs :
    /\ Subscribed(s)
    /\ client[sub[s].owner].st = "torn"
    /\ ~client[sub[s].owner].connectedAtCtor
    /\ client[sub[s].owner].connects = 0
    /\ s \in updatesL
    /\ s \in disconnectL
    /\ onUpdate[s] # <<>>

(***************************************************************************)
(* C11.  With several clients bound to different collection ids on one     *)
(* channel, the onUpdate callback of a subscription is invoked only by a   *)
(* broadcast for the collection its client is bound to: in every step      *)
(* that adds calls to a subscription's onUpdate, the step is a broadcast   *)
(* whose workspaceId is the id of the subscribing client, whatever         *)
(* broadcasts, subscribes and cancels came before.                         *)
(***************************************************************************)
C11_NoCrossDelivery ==
  [][\A s \in Subs :
       onUpdate'[s] # onUpdate[s] =>
         /\ sub[s].st = "subscribed"
         /\ \E m \in Messages :
              /\ Broadcast(m)
              /\ m.workspaceId = BoundTo(s)
              /\ \A u \in Subs :
                   (sub[u].st = "subscribed" /\ BoundTo(u) # m.workspaceId)
                     => onUpdate'[u] = onUpdate[u]]_vars

\* two live clients bound to different collections, each with a subscription
\* whose handlers are both registered; only the subscription of the first got
\* calls from the broadcasts so far
C11_Witness ==
  \E s, u \in Subs :
    /\ sub[s].st = "subscribed" /\ sub[u].st = "subscribed"
    /\ sub[s].owner # sub[u].owner
    /\ client[sub[s].owner].st = "live"
    /\ client[sub[u].owner].st = "live"
    /\ BoundTo(s) # BoundTo(u)
    /\ {s, u} \subseteq updatesL
    /\ {s, u} \subseteq disconnectL
    /\ onUpdate[s] # <<>>
    /\ onUpdate[u] = <<>>

(***************************************************************************)
(* C12.  The cancel handle is idempotent and local.  Every invocation      *)
(* removes the update and disconnect handlers of its own subscribe call    *)
(* and nothing else: the connect handlers, the handlers of every other     *)
(* subscription, the connection state, the emissions and the callbacks     *)
(* made so far are unchanged; an invocation after the first changes        *)
(* nothing at all in the registry.                                         *)
(***************************************************************************)
C12_CancelIdempotentLocal ==
  [][\A s \in Subs :
       Cancel(s) =>
         /\ s \notin updatesL' /\ s \notin disconnectL'
         /\ \A t \in Subs \ {s} :
              /\ (t \in updatesL') = (t \in updatesL)
              /\ (t \in disconnectL') = (t \in disconnectL)
         /\ connectL' = connectL
         /\ connected' = connected
         /\ emitted' = emitted
         /\ onUpdate' = onUpdate
         /\ onDisconnect' = onDisconnect
         /\ sub[s].cancelled =>
              /\ updatesL' = updatesL
              /\ disconnectL' = disconnectL]_vars

\* one client constructed over a disconnected channel that never connected:
\* the four steps so far are its construction, one subscribe and two
\* invocations of the cancel handle
C12_Witness ==
  /\ nSteps = 4
  /\ ~connected
  /\ client[1].st = "live"
  /\ ~client[1].connectedAtCtor
  /\ client[1].connects = 0
  /\ \A c \in Clients \ {1} : client[c].st = "none"
  /\ sub[1].st = "subscribed" /\ sub[1].cancelled
  /\ \A s \in Subs \ {1} : sub[s].st = "none"

(***************************************************************************)
(* C13.  The static client.  A pull whose GET got a successful response    *)
(* returns {data: the bytes of the body} without a state vector; a pull    *)
(* whose GET got any other response returns null.  push and subscribe      *)
(* fail with 'Method not implemented.' on every call, whatever their       *)
(* arguments and whatever calls came before, and send nothing.             *)
(***************************************************************************)
C13_StaticClient ==
  \A k \in Calls :
    /\ (calls[k].op = "staticPull" /\ calls[k].pc = "done") =>
         /\ calls[k].reply.v.ok =>
              /\ calls[k].outcome.kind = "value"
              /\ calls[k].outcome.data = calls[k].reply.v.body
              /\ ~calls[k].outcome.state.some
         /\ ~calls[k].reply.v.ok => calls[k].outcome.kind = "null"
    /\ calls[k].op \in {"staticPush", "staticSubscribe"} =>
         /\ calls[k].pc = "done"
         /\ calls[k].outcome.kind = "error"
         /\ calls[k].outcome.message = "Method not implemented."
         /\ calls[k].sent = <<>>

\* a pull that returned the body of a successful response, followed by a
\* push that failed
C13_Witness ==
  \E k, j \in Calls :
    /\ k < j
    /\ calls[k].op = "staticPull" /\ calls[k].pc = "done"
    /\ calls[k].reply.v.ok
    /\ calls[k].outcome.data = <<255, 0>>
    /\ calls[j].op = "staticPush"
    /\ calls[j].outcome.kind = "error"

(***************************************************************************)
(* C14.  For one subscribe call, onDisconnect is invoked at most once      *)
(* over the whole lifetime of the subscription: disconnect events after    *)
(* the first one that invoked it do not invoke it again.                   *)
(***************************************************************************)
C14_OnDisconnectAtMostOnce ==
  \A s \in Subs : Len(onDisconnect[s]) <= 1

(***************************************************************************)
(* C15.  No retry.  A pull call emits exactly one 'doc-load-v2' request    *)
(* and a push call exactly one 'client-update-v2' request: a call that     *)
(* waits for its acknowledgement or has ended, with a result, a remote     *)
(* error or a timeout, has sent one request of its kind, and once a call   *)
(* has sent its request it never sends anything further.                   *)
(***************************************************************************)
C15_NoRetry ==
  /\ [](\A k \in Calls :
          calls[k].op \in {"pull", "push"} =>
            /\ calls[k].pc = "encode" => calls[k].sent = <<>>
            /\ calls[k].pc \in {"wait", "done"} =>
                 /\ Len(calls[k].sent) = 1
                 /\ calls[k].sent[1].event =
                      (IF calls[k].op = "pull" THEN "doc-load-v2"
                       ELSE "client-update-v2"))
  /\ [][\A k \in Calls :
          calls[k].sent # <<>> => calls'[k].sent = calls[k].sent]_vars

\* a pull that failed with the error of the remote peer and a push that
\* failed with the timeout, each having sent its one request
C15_Witness ==
  \E k, j \in Calls :
    /\ calls[k].op = "pull" /\ calls[k].pc = "done"
    /\ calls[k].outcome.kind = "error"
    /\ Len(calls[k].sent) = 1
    /\ calls[j].op = "push" /\ calls[j].pc = "done"
    /\ calls[j].outcome.kind = "timeout"
    /\ Len(calls[j].sent) = 1

\* the onUpdate calls that the broadcasts ms amount to
RECURSIVE Concatenation(_)
Concatenation(ms) ==
  IF ms = <<>> THEN <<>>
  ELSE LET m == ms[Len(ms)]
       IN  Concatenation(SubSeq(ms, 1, Len(ms) - 1)) \o
             [i \in 1..Len(m.updates) |->
                [docId |-> m.guid, data |-> base64ToUint8Array(m.updates[i])]]

(***************************************************************************)
(* C16.  For a subscription that stays active, the sequence of onUpdate    *)
(* invocations is the concatenation, in arrival order, of the updates      *)
(* lists of all the broadcasts for its collection received so far, each    *)
(* entry decoded and paired with the docId of its broadcast: nothing is    *)
(* reordered, dropped or deduplicated.                                     *)
(***************************************************************************)
C16_DeliveryInArrivalOrder ==
  \A s \in Subs :
    Delivering(s) => onUpdate[s] = Concatenation(received[s])

\* an active subscription received the same broadcast of two updates twice
\* and its callback got the two updates twice
C16_Witness ==
  \E s \in Subs :
    /\ Delivering(s)
    /\ Len(received[s]) = 2
    /\ received[s][1] = received[s][2]
    /\ received[s][1].updates = <<TextA, TextB>>
    /\ Len(onUpdate[s]) = 4
    /\ onUpdate[s][1] = onUpdate[s][3]
    /\ onUpdate[s][1] # onUpdate[s][2]

(***************************************************************************)
(* C17.  pull skips the encoding when the local state vector is empty or   *)
(* absent: the 'doc-load-v2' request then carries no stateVector, and it   *)
(* carries an encoded stateVector only when localState is a non-empty      *)
(* byte sequence.                                                          *)
(***************************************************************************)
C17_StateVectorOnlyWhenNonEmpty ==
  \A k \in Calls :
    (calls[k].op = "pull" /\ calls[k].sent # <<>>) =>
      (calls[k].sent[1].stateVector.some
         <=> (calls[k].arg.some /\ calls[k].arg.v # <<>>))

(***************************************************************************)
(* C18, as stated.  A departure announcement ('client-leave-sync') is      *)
(* emitted only after the client has emitted at least one handshake:       *)
(* TornDown is never entered directly from Constructed.                    *)
(***************************************************************************)
C18_LeaveOnlyAfterHandshake ==
  \A c \in Clients :
    \A i \in 1..Len(emitted[c]) :
      emitted[c][i].event = "client-leave-sync" =>
        \E j \in 1..(i - 1) : emitted[c][j].event = "client-handshake-sync"

(***************************************************************************)
(* C18, amended.  The lifecycle is Constructed -> Announced <->            *)
(* Reconnecting -> TornDown, with TornDown also entered directly from      *)
(* Constructed.  The departure announcement is the last message of a torn  *)
(* down client and its only departure; before it come the handshakes of    *)
(* the client, one if it was constructed over a connected channel plus one *)
(* per connect event while it was live, which may be none at all; a live   *)
(* client has announced no departure.                                      *)
(***************************************************************************)
C18_Lifecycle ==
  \A c \in Clients :
    LET w == client[c].workspaceId
        h == (IF client[c].connectedAtCtor THEN 1 ELSE 0) + client[c].connects
    IN  /\ client[c].st = "live" =>
             emitted[c] = [i \in 1..h |-> Handshake(w)]
        /\ client[c].st = "torn" =>
             emitted[c] = [i \in 1..h |-> Handshake(w)] \o <<Leave(w)>>

\* a client constructed over a disconnected channel and torn down before
\* any connect event, next to a client that announced itself before its
\* teardown
C18_Witness ==
  \E c, d \in Clients :
    /\ client[c].st = "torn"
    /\ ~client[c].connectedAtCtor
    /\ client[c].connects = 0
    /\ CountEvent(emitted[c], "client-handshake-sync") = 0
    /\ CountEvent(emitted[c], "client-leave-sync") = 1
    /\ client[d].st = "torn"
    /\ CountEvent(emitted[d], "client-handshake-sync") = 1
    /\ emitted[d][Len(emitted[d])] = Leave(client[d].workspaceId)

(***************************************************************************)
(* C19.  The listener registry, after any sequence of subscribes,          *)
(* cancels, broadcasts, disconnects and connects: the registered           *)
(* 'disconnect' handlers are exactly those of the subscriptions whose      *)
(* cancel handle has not been invoked, the registered 'server-updates'     *)
(* handlers are handlers of such subscriptions too, and a subscription     *)
(* whose cancel handle has been invoked, before or after a disconnect, has *)
(* neither handler registered; so when every subscription made so far has  *)
(* been cancelled, the two registries are empty, as before the first       *)
(* subscribe.                                                              *)
(***************************************************************************)
C19_ListenerRegistry ==
  /\ disconnectL = {s \in Subs : sub[s].st = "subscribed" /\ ~sub[s].cancelled}
  /\ updatesL \subseteq disconnectL
  /\ \A s \in Subs :
       sub[s].cancelled => s \notin updatesL /\ s \notin disconnectL
  /\ (\A s \in Subs : sub[s].st = "subscribed" => sub[s].cancelled)
       => updatesL = {} /\ disconnectL = {}

\* a subscribe/cancel cycle with a disconnect in it (the disconnect removed
\* the update handler, the cancel after it the disconnect handler), then a
\* second subscribe: the registries hold the handlers of the second only
C19_Witness ==
  \E s, u \in Subs :
    /\ sub[s].cancelled
    /\ onDisconnect[s] # <<>>
    /\ Subscribed(u)
    /\ updatesL = {u}
    /\ disconnectL = {u}

====
